---------------------------- MODULE Spec2Model ----------------------------
(***************************************************************************)
(* The Speller decoder of kospeech (src/kospeech/model/decoder.py) as a    *)
(* state machine: construction, the module's train/eval flag, and one      *)
(* decode call (Speller.forward) taken line by line: validate_args, the    *)
(* mode-selection draw, the teacher-forced branch (per-timestep under      *)
(* 'loc', one batched forward_step under 'dot') and the free-running loop  *)
(* with the optional language-model fusion.                                *)
(*                                                                         *)
(* Tensors are modelled by their shape and integer contents:               *)
(*   - a token batch is a sequence of rows, a row a sequence of token ids; *)
(*   - a TokenDistribution is a function from token ids to integer scores  *)
(*     (log-probabilities in integer units);                               *)
(*   - None is the empty sequence << >> for every tensor-valued local.     *)
(* Probabilities and samples are counted in halves (0, 1/2, 1), the fusion *)
(* weights in tenths (0.9 -> 9, 0.1 -> 1).                                 *)
(* Dropout is taken as inactive (dropout_p = 0), so forward_step is a      *)
(* function of its arguments.                                              *)
(***************************************************************************)
EXTENDS Integers, Sequences, FiniteSets, TLC

VARIABLES
    pc,                     \* where the program is: "none" (no Speller), "idle",
                            \* "validated", "teacher_loc", "teacher_dot", "free",
                            \* "done" (forward returned), "raised" (an exception left the call)
    constructed,            \* a Speller object exists
    attn_mechanism,         \* the attn_mechanism argument of the last construction
    training,               \* self.training
    error,                  \* the exception raised last, "None" if none
    targets,                \* forward's inputs argument as the caller gave it (<< >> is None)
    inputs,                 \* the local `inputs` (validate_args' seed, then the stripped targets)
    encoder_outputs,        \* one entry per batch row
    teacher_forcing_ratio,  \* in halves: 0, 1, 2 stand for 0.0, 0.5, 1.0
    language_model,         \* "None", or the mode the attached model was left in
    batch_size,
    max_length,             \* the call's length cap (validate_args)
    sample,                 \* the value random.random() returned, in halves; -1 before the draw
    draws,                  \* how many times this call drew from random.random()
    use_teacher_forcing,
    hidden,                 \* the local `hidden` (<< >> is None)
    attn,                   \* the local `attn` (<< >> is None)
    input_var,              \* the local `input_var`
    prev_tokens,            \* the local `prev_tokens` (<< >> is None)
    di,                     \* completed iterations of the running loop
    decoder_outputs,        \* the output trace
    ret_dict,               \* the diagnostics dictionary: its keys and the two lists
    calls,                  \* log of this call's forward_step invocations: arguments and results
    lm_calls                \* log of this call's language_model.forward_step results

vars == << pc, constructed, attn_mechanism, training, error, targets, inputs,
           encoder_outputs, teacher_forcing_ratio, language_model, batch_size,
           max_length, sample, draws, use_teacher_forcing, hidden, attn, input_var,
           prev_tokens, di, decoder_outputs, ret_dict, calls, lm_calls >>

-----------------------------------------------------------------------------
(* Bounds of the model *)

MaxTargetLen == 3       \* longest target row a caller supplies
MaxLength == 3          \* the max_length the Speller is constructed with

(* Program constants *)

sos_id == 1
eos_id == 2
acoutsic_weight == 9    \* 0.9, in tenths (the attribute's name is the source's)
language_weight == 1    \* 0.1, in tenths

None == << >>
Tokens == 0 .. eos_id                   \* the vocabulary: num_classes = eos_id + 1
BatchSizes == {1, 2}
Ratios == {0, 1, 2}                     \* teacher_forcing_ratio 0.0, 0.5, 1.0
Samples == {0, 1}                       \* random.random() in [0, 1): 0.0, 0.5
AttentionNames == {"loc", "dot", "bogus"}
LanguageModels == {"None", "lm"}
KEY_ATTENTION_SCORE == "attention_score"
KEY_SEQUENCE_SYMBOL == "sequence_symbol"

\* The attributes Speller.__init__ sets that forward reads by name.
SpellerAttributes == {"max_length", "eos_id", "sos_id", "acoutsic_weight",
                      "language_weight", "attn_mechanism"}

-----------------------------------------------------------------------------
(* Tensor helpers *)

RECURSIVE Sum(_)
Sum(s) == IF s = << >> THEN 0 ELSE Head(s) + Sum(Tail(s))

RECURSIVE Flatten(_)
Flatten(rows) == IF rows = << >> THEN << >> ELSE Head(rows) \o Flatten(Tail(rows))

RECURSIVE Keep(_, _)
\* t[t != x] on a flat tensor
Keep(s, x) ==
    IF s = << >> THEN << >>
    ELSE IF Head(s) = x THEN Keep(Tail(s), x)
    ELSE << Head(s) >> \o Keep(Tail(s), x)

\* flat.view(b, -1): defined when the element count is a positive multiple of b
ViewOk(flat, b) == Len(flat) > 0 /\ Len(flat) % b = 0
View(flat, b) ==
    LET w == Len(flat) \div b
    IN  [r \in 1 .. b |-> SubSeq(flat, (r - 1) * w + 1, r * w)]

\* t[:, c].unsqueeze(1), c counted from 0
Column(rows, c) == [r \in 1 .. Len(rows) |-> << rows[r][c + 1] >>]

\* dist.topk(1)[1] for one row: the index of the largest score, the lowest on ties
ArgMax(d) ==
    CHOOSE k \in DOMAIN d :
        \A j \in DOMAIN d : d[k] > d[j] \/ (d[k] = d[j] /\ k <= j)

\* t.topk(1)[1] on a (batch, classes) tensor: a (batch, 1) token tensor
TopK1(t) == [r \in 1 .. Len(t) |-> << ArgMax(t[r]) >>]

\* torch.cat([a, b], dim=1)
Cat1(a, b) == [r \in 1 .. Len(a) |-> a[r] \o b[r]]


-----------------------------------------------------------------------------
(* The collaborators forward_step calls: embedding table, recurrent layer,  *)
(* attention strategy, projection stack, and the external language model.  *)
(* Their code is outside this core; they are modelled by their contracts:  *)
(* the recurrent layer is causal (its output at a position is a function   *)
(* of the initial state and the tokens up to that position), content-based *)
(* attention reads the query and the encoder output only, location-aware   *)
(* attention also reads the previous alignment and never moves backwards.  *)

\* encoder_outputs of a batch of b utterances: one value per row
EncoderOutput(b) == [r \in 1 .. b |-> r]

\* self.embedding: an injective table
Embedding(x) == x + 1

\* self.rnn on one row: the state after consuming the embedded tokens e from state h
Rnn(h, e) == h \o e

\* what the later layers read of a recurrent output
Weight(q) == Sum(q)

\* MultiHeadAttention(query, encoder_outputs, encoder_outputs): the alignment
AttendDot(q, enc) == (Weight(q) + enc) % 2

\* LocationAwareAttention(query, encoder_outputs, previous alignment)
AttendLoc(q, enc, prev) ==
    LET move == (Weight(q) + enc) % 2
    IN  IF prev + move > 2 THEN 2 ELSE prev + move

\* linear1, layer_norm, linear2, log_softmax: the scores over the vocabulary
Project(q, a) == [k \in Tokens |-> 10 * ((Weight(q) + a + k) % (eos_id + 1))]

\* language_model.forward_step(prev_tokens, None)[0][:, -1, :].squeeze(1)
LMStep(prev) ==
    [r \in 1 .. Len(prev) |->
        [k \in Tokens |-> 100 * ((Sum(prev[r]) + Len(prev[r]) + 2 * k) % (eos_id + 1))]]

-----------------------------------------------------------------------------
(* Speller.forward_step *)

\* predicted_softmax.view(batch_size, output_lengths, -1).squeeze(1):
\* the length axis is dropped exactly when it has size 1
Squeeze1(t3) ==
    IF Len(t3[1]) = 1
    THEN [rank |-> 2, t |-> [r \in 1 .. Len(t3) |-> t3[r][1]]]
    ELSE [rank |-> 3, t |-> t3]

\* forward_step(input_var, hidden, encoder_outputs, attn) for a (batch, T) input_var:
\* step_output (with its rank), the new hidden and the new attn
ForwardStep(iv, hid, enc, att) ==
    LET B == Len(iv)
        T == Len(iv[1])
        h0 == IF hid = None THEN [r \in 1 .. B |-> << >>] ELSE hid
        embedded == [r \in 1 .. B |-> [i \in 1 .. T |-> Embedding(iv[r][i])]]
        output == [r \in 1 .. B |->
                     [i \in 1 .. T |-> Rnn(h0[r], SubSeq(embedded[r], 1, i))]]
        prev == IF att = None THEN [r \in 1 .. B |-> 0] ELSE att
        align == IF attn_mechanism = "dot"
                 THEN [r \in 1 .. B |-> [i \in 1 .. T |-> AttendDot(output[r][i], enc[r])]]
                 ELSE [r \in 1 .. B |->
                         [i \in 1 .. T |-> AttendLoc(output[r][i], enc[r], prev[r])]]
        scores == [r \in 1 .. B |-> [i \in 1 .. T |-> Project(output[r][i], align[r][i])]]
    IN  [step_output |-> Squeeze1(scores),
         hidden |-> [r \in 1 .. B |-> Rnn(h0[r], embedded[r])],
         attn |-> IF attn_mechanism = "dot" THEN align
                  ELSE [r \in 1 .. B |-> align[r][T]]]

\* one entry of the log of forward_step invocations
Invocation(mode, iv, hid, att, r) ==
    [mode |-> mode, input |-> iv, hidden_in |-> hid, attn_in |-> att,
     step_output |-> r.step_output.t, hidden_out |-> r.hidden, attn_out |-> r.attn]

-----------------------------------------------------------------------------
(* Speller.__init__ *)

\* (variant: the selector without its else branch)
AnyAttention(a) == TRUE

\* the attention selector's if / elif / else
SupportedAttention(a) == a \in {"loc", "dot"}

\* the diagnostics dictionary, empty
EmptyDict(tr) ==
    [keys |-> IF tr THEN {} ELSE {KEY_ATTENTION_SCORE, KEY_SEQUENCE_SYMBOL},
     attention_score |-> << >>, sequence_symbol |-> << >>]

\* the locals of forward before any call
NoCall ==
    /\ targets = None /\ inputs = None /\ encoder_outputs = << >>
    /\ teacher_forcing_ratio = 0 /\ language_model = "None"
    /\ batch_size = 0 /\ max_length = 0
    /\ sample = -1 /\ draws = 0 /\ use_teacher_forcing = FALSE
    /\ hidden = None /\ attn = None /\ input_var = None /\ prev_tokens = None
    /\ di = 0 /\ decoder_outputs = << >> /\ ret_dict = EmptyDict(TRUE)
    /\ calls = << >> /\ lm_calls = << >>

Init ==
    /\ pc = "none" /\ constructed = FALSE /\ attn_mechanism = "None"
    /\ training = TRUE /\ error = "None"
    /\ NoCall

\* no call in progress: the locals of forward do not exist
Cleared ==
    /\ targets' = None /\ inputs' = None /\ encoder_outputs' = << >>
    /\ teacher_forcing_ratio' = 0 /\ language_model' = "None"
    /\ batch_size' = 0 /\ max_length' = 0
    /\ sample' = -1 /\ draws' = 0 /\ use_teacher_forcing' = FALSE
    /\ hidden' = None /\ attn' = None /\ input_var' = None /\ prev_tokens' = None
    /\ di' = 0 /\ decoder_outputs' = << >> /\ ret_dict' = EmptyDict(TRUE)
    /\ calls' = << >> /\ lm_calls' = << >>

\* Speller(num_classes, max_length = MaxLength, attn_mechanism = a): a new object
\* (in training mode, as every new module), or ValueError and no object.
Construct(a) ==
    /\ pc \in {"none", "idle"}
    /\ attn_mechanism' = a
    /\ training' = TRUE
    /\ IF SupportedAttention(a)
       THEN constructed' = TRUE /\ pc' = "idle" /\ error' = "None"
       ELSE constructed' = FALSE /\ pc' = "none" /\ error' = "ValueError"
    /\ Cleared

\* The caller is done with a call's results or its exception: forward's frame is
\* gone and the object is ready for the next call.
Release ==
    /\ pc \in {"done", "raised"}
    /\ pc' = "idle"
    /\ error' = "None"
    /\ Cleared
    /\ UNCHANGED << constructed, attn_mechanism, training >>

\* speller.train() / speller.eval() between calls
SetTraining(b) ==
    /\ pc = "idle"
    /\ b # training
    /\ training' = b
    /\ UNCHANGED << pc, constructed, attn_mechanism, error, targets, inputs,
                    encoder_outputs, teacher_forcing_ratio, language_model, batch_size,
                    max_length, sample, draws, use_teacher_forcing, hidden, attn,
                    input_var, prev_tokens, di, decoder_outputs, ret_dict, calls,
                    lm_calls >>


-----------------------------------------------------------------------------
(* Speller.validate_args *)

\* the target rows of length L a caller supplies: the start-of-sequence token,
\* then any tokens (with or without end-of-sequence tokens among them)
TargetRows(L) == {<< sos_id >> \o t : t \in [1 .. L - 1 -> Tokens]}

\* the target batches a caller supplies for a batch of b rows
TargetBatches(b) == UNION {[1 .. b -> TargetRows(L)] : L \in 1 .. MaxTargetLen}

\* LongTensor([self.sos_id] * batch_size).view(batch_size, 1)
Seed(b) == [r \in 1 .. b |-> << sos_id >>]

\* (variant: the "minus the start of sequence symbol" applied to both caps)
LengthCapMinusOne(tg) == IF tg = None THEN MaxLength - 1 ELSE Len(tg[1]) - 1

\* the length cap: self.max_length without targets, else inputs.size(1) - 1
LengthCap(tg) == IF tg = None THEN MaxLength ELSE Len(tg[1]) - 1

\* (variant: validate_args without the check)
ValidateRaisesNever(tg, ratio) == FALSE

\* the check that raises ValueError
ValidateRaises(tg, ratio) == tg = None /\ ratio > 0

-----------------------------------------------------------------------------
(* Speller.forward *)

\* (variant: <= for <)
UseTeacherForcingInclusive(s, ratio) == s <= ratio

\* random.random() < teacher_forcing_ratio
UseTeacherForcing(s, ratio) == s < ratio

\* getattr(self, name) succeeds
HasAttribute(name) == name \in SpellerAttributes

\* step_output * acoustic weight + lm_step_output * language weight, elementwise
Fuse(a, b) ==
    [r \in 1 .. Len(a) |->
        [k \in Tokens |->
            (a[r][k] * acoutsic_weight) \div 10 + (b[r][k] * language_weight) \div 10]]

\* (variant: the returned recurrent state is dropped, the old one kept)
NextHiddenKept(r) == hidden

\* the values `step_output, hidden, attn = self.forward_step(...)` binds to hidden and attn
NextHidden(r) == r.hidden
NextAttn(r) == r.attn

\* forward(inputs = tg, encoder_outputs of b rows, teacher_forcing_ratio = ratio,
\* language_model = lm), up to the return of validate_args: fresh locals, the
\* diagnostics keys outside training mode, the resolved seed and length cap,
\* or ValueError.
Call(tg, b, ratio, lm) ==
    /\ pc = "idle"
    /\ constructed
    /\ hidden' = None /\ attn' = None
    /\ decoder_outputs' = << >>
    /\ ret_dict' = EmptyDict(training)
    /\ targets' = tg
    /\ encoder_outputs' = EncoderOutput(b)
    /\ teacher_forcing_ratio' = ratio
    /\ IF ValidateRaises(tg, ratio)
       THEN /\ pc' = "raised" /\ error' = "ValueError"
            /\ inputs' = tg /\ batch_size' = 0 /\ max_length' = 0
            /\ language_model' = lm
       ELSE /\ pc' = "validated" /\ error' = "None"
            /\ inputs' = IF tg = None THEN Seed(b) ELSE tg
            /\ batch_size' = b
            /\ max_length' = LengthCap(tg)
            /\ language_model' = IF lm = "None" THEN "None" ELSE "lm_eval"
    /\ sample' = -1 /\ draws' = 0 /\ use_teacher_forcing' = FALSE
    /\ input_var' = None /\ prev_tokens' = None /\ di' = 0
    /\ calls' = << >> /\ lm_calls' = << >>
    /\ UNCHANGED << constructed, attn_mechanism, training >>

\* The draw of the mode and the entry of the chosen branch: the teacher-forced
\* branch strips the end-of-sequence tokens and reshapes (RuntimeError when the
\* rest does not fill batch_size equal rows); the free-running branch takes the
\* first column as the first input.
SelectMode(s) ==
    /\ pc = "validated"
    /\ sample' = s
    /\ draws' = draws + 1
    /\ use_teacher_forcing' = UseTeacherForcing(s, teacher_forcing_ratio)
    /\ IF UseTeacherForcing(s, teacher_forcing_ratio)
       THEN LET flat == Keep(Flatten(inputs), eos_id)
            IN  /\ IF ViewOk(flat, batch_size)
                   THEN /\ inputs' = View(flat, batch_size)
                        /\ pc' = IF attn_mechanism = "loc" THEN "teacher_loc"
                                 ELSE "teacher_dot"
                        /\ error' = error
                   ELSE /\ inputs' = inputs
                        /\ pc' = "raised" /\ error' = "RuntimeError"
                /\ UNCHANGED << input_var, prev_tokens >>
       ELSE /\ input_var' = Column(inputs, 0)
            /\ prev_tokens' = IF language_model # "None" THEN Column(inputs, 0) ELSE None
            /\ pc' = "free"
            /\ UNCHANGED << inputs, error >>
    /\ UNCHANGED << constructed, attn_mechanism, training, targets, encoder_outputs,
                    teacher_forcing_ratio, language_model, batch_size, max_length,
                    hidden, attn, di, decoder_outputs, ret_dict, calls, lm_calls >>

\* One iteration of the per-timestep teacher-forced loop (location-aware attention).
TeacherForcedLocStep ==
    /\ pc = "teacher_loc"
    /\ di < Len(inputs[1])
    /\ LET iv == Column(inputs, di)
           r == ForwardStep(iv, hidden, encoder_outputs, attn)
       IN  /\ input_var' = iv
           /\ hidden' = NextHidden(r)
           /\ attn' = NextAttn(r)
           /\ decoder_outputs' = Append(decoder_outputs, r.step_output.t)
           /\ calls' = Append(calls, Invocation("teacher", iv, hidden, attn, r))
    /\ di' = di + 1
    /\ UNCHANGED << pc, constructed, attn_mechanism, training, error, targets, inputs,
                    encoder_outputs, teacher_forcing_ratio, language_model, batch_size,
                    max_length, sample, draws, use_teacher_forcing, prev_tokens,
                    ret_dict, lm_calls >>

\* The batched teacher-forced path: one forward_step over the whole input, then the
\* split per position, step_outputs[:, di, :] for di < step_outputs.size(1), which
\* is an IndexError on a tensor of rank 2; then the return.
TeacherForcedBatched ==
    /\ pc = "teacher_dot"
    /\ LET r == ForwardStep(inputs, hidden, encoder_outputs, attn)
           so == r.step_output
       IN  /\ hidden' = NextHidden(r)
           /\ attn' = NextAttn(r)
           /\ calls' = Append(calls, Invocation("teacher", inputs, hidden, attn, r))
           /\ IF so.rank = 3
              THEN /\ decoder_outputs' =
                        [i \in 1 .. Len(so.t[1]) |-> [b \in 1 .. Len(so.t) |-> so.t[b][i]]]
                   /\ di' = Len(so.t[1])
                   /\ pc' = "done" /\ error' = error
              ELSE /\ decoder_outputs' = decoder_outputs
                   /\ di' = 0
                   /\ pc' = "raised" /\ error' = "IndexError"
    /\ UNCHANGED << constructed, attn_mechanism, training, targets, inputs,
                    encoder_outputs, teacher_forcing_ratio, language_model, batch_size,
                    max_length, sample, draws, use_teacher_forcing, input_var,
                    prev_tokens, ret_dict, lm_calls >>

\* One iteration of the free-running loop.
FreeRunStep ==
    /\ pc = "free"
    /\ di < max_length
    /\ LET r == ForwardStep(input_var, hidden, encoder_outputs, attn)
           fusing == ~training /\ language_model # "None"
           lm_step_output == LMStep(prev_tokens)
           step_output == IF fusing THEN Fuse(r.step_output.t, lm_step_output)
                          ELSE r.step_output.t
       IN  /\ hidden' = NextHidden(r)
           /\ attn' = NextAttn(r)
           /\ calls' = Append(calls, Invocation("free", input_var, hidden, attn, r))
           /\ ret_dict' =
                IF training THEN ret_dict
                ELSE [ret_dict EXCEPT
                        !.attention_score = Append(@, NextAttn(r)),
                        !.sequence_symbol = Append(@, input_var)]
           /\ lm_calls' = IF fusing THEN Append(lm_calls, lm_step_output) ELSE lm_calls
           /\ IF fusing /\ ~HasAttribute("acoustic_weight")
              THEN /\ pc' = "raised" /\ error' = "AttributeError"
                   /\ UNCHANGED << prev_tokens, decoder_outputs, input_var, di >>
              ELSE /\ prev_tokens' = IF fusing THEN Cat1(prev_tokens, TopK1(step_output))
                                     ELSE prev_tokens
                   /\ decoder_outputs' = Append(decoder_outputs, step_output)
                   /\ input_var' = TopK1(step_output)
                   /\ di' = di + 1
                   /\ UNCHANGED << pc, error >>
    /\ UNCHANGED << constructed, attn_mechanism, training, targets, inputs,
                    encoder_outputs, teacher_forcing_ratio, language_model, batch_size,
                    max_length, sample, draws, use_teacher_forcing >>

\* The loop of the running branch is over: return decoder_outputs, ret_dict.
Return ==
    /\ \/ pc = "teacher_loc" /\ di = Len(inputs[1])
       \/ pc = "free" /\ di = max_length
    /\ pc' = "done"
    /\ UNCHANGED << constructed, attn_mechanism, training, error, targets, inputs,
                    encoder_outputs, teacher_forcing_ratio, language_model, batch_size,
                    max_length, sample, draws, use_teacher_forcing, hidden, attn,
                    input_var, prev_tokens, di, decoder_outputs, ret_dict, calls,
                    lm_calls >>

Next ==
    \/ \E a \in AttentionNames : Construct(a)
    \/ \E b \in BOOLEAN : SetTraining(b)
    \/ /\ pc = "idle"
       /\ \E b \in BatchSizes, ratio \in Ratios, lm \in LanguageModels :
             \E tg \in {None} \cup TargetBatches(b) : Call(tg, b, ratio, lm)
    \/ \E s \in Samples : SelectMode(s)
    \/ TeacherForcedLocStep
    \/ TeacherForcedBatched
    \/ FreeRunStep
    \/ Return
    \/ Release

Spec == Init /\ [][Next]_vars


-----------------------------------------------------------------------------
(* Vocabulary of the properties *)

\* a call has ended: forward returned or an exception left it
Ended == pc \in {"done", "raised"}

\* the mode has been drawn and the free-running branch entered
FreeRunning == draws = 1 /\ ~use_teacher_forcing

\* targets as a data pipeline builds them: every row closed by its only
\* end-of-sequence token
WellFormed(tg) ==
    \A r \in 1 .. Len(tg) :
        \A i \in 1 .. Len(tg[r]) : (tg[r][i] = eos_id) <=> (i = Len(tg[r]))

\* 0.9 x A + 0.1 x B elementwise, on scores in integer units
Blend(a, b) ==
    [r \in 1 .. Len(a) |-> [k \in Tokens |-> (9 * a[r][k] + 1 * b[r][k]) \div 10]]

RECURSIVE RunningHistory(_)
\* the token history before decoded position i (counted from 1): the seed, then
\* the arg-max token of every distribution appended before position i
RunningHistory(i) ==
    IF i = 1 THEN Column(inputs, 0)
    ELSE Cat1(RunningHistory(i - 1), TopK1(decoder_outputs[i - 1]))

RECURSIVE ManualLoop(_, _, _, _)
\* forward_step invoked once per position of `inputs` from position i (counted
\* from 0) on, in order, threading hidden and attn: the trace it appends to acc
ManualLoop(i, hid, att, acc) ==
    IF i = Len(inputs[1]) THEN acc
    ELSE LET r == ForwardStep(Column(inputs, i), hid, encoder_outputs, att)
         IN  ManualLoop(i + 1, r.hidden, r.attn, Append(acc, r.step_output.t))

-----------------------------------------------------------------------------
(* C1: a call with teacher_forcing_ratio = 1.0 and a target batch of length *)
(* L >= 2 finishes with an output trace of exactly L - 1 entries, under    *)
(* either attention mechanism.  Stated here for well-formed targets, the   *)
(* claim's plainest case.                                                  *)
C1_TeacherForcedTraceLength ==
    (/\ Ended
     /\ teacher_forcing_ratio = 2
     /\ targets # None
     /\ Len(targets[1]) >= 2
     /\ WellFormed(targets))
        => (pc = "done" /\ Len(decoder_outputs) = Len(targets[1]) - 1)

(* C2: every free-running call without targets (teacher_forcing_ratio = 0)  *)
(* ends by returning, after exactly max_length steps and with exactly      *)
(* max_length entries in the output trace.                                 *)
C2_FreeRunningRunsToMaxLength ==
    (Ended /\ targets = None /\ teacher_forcing_ratio = 0)
        => (/\ pc = "done"
            /\ Len(calls) = MaxLength
            /\ Len(decoder_outputs) = MaxLength)

(* C3: in a free-running call with a language model attached, no error is   *)
(* raised and every entry of the output trace is 0.9 x A + 0.1 x B, A the  *)
(* distribution forward_step returned for that position and B the language *)
(* model's distribution for the last position of the running history.      *)
(* Stated here for calls outside training mode, the claim's plainest case. *)
C3_FusedDistribution ==
    (FreeRunning /\ language_model # "None" /\ ~training)
        => (/\ error = "None"
            /\ Len(decoder_outputs) = Len(calls)
            /\ \A i \in 1 .. Len(decoder_outputs) :
                  decoder_outputs[i] =
                      Blend(calls[i].step_output, LMStep(RunningHistory(i))))

(* C4: a call without targets and with teacher_forcing_ratio > 0 ends in    *)
(* ValueError, raised before the mode is drawn, before any forward_step    *)
(* and before any entry is added to the output trace.                      *)
C4_NoTargetsWithTeacherForcingRaises ==
    (pc \notin {"none", "idle"} /\ targets = None /\ teacher_forcing_ratio > 0)
        => (/\ pc = "raised" /\ error = "ValueError"
            /\ draws = 0
            /\ calls = << >>
            /\ decoder_outputs = << >>)

C4_Witness ==
    /\ pc = "raised" /\ error = "ValueError"
    /\ targets = None /\ teacher_forcing_ratio > 0

(* C5: under 'dot' attention in the teacher-forced branch, the batched path *)
(* (one forward_step over all positions, then the split) ends without      *)
(* error with the trace that one forward_step per position, threading the  *)
(* recurrent state, produces, for every input of length >= 1.              *)
C5_BatchedEqualsStepwise ==
    (Ended /\ use_teacher_forcing /\ attn_mechanism = "dot" /\ calls # << >>)
        => (/\ error = "None"
            /\ decoder_outputs = ManualLoop(0, None, None, << >>))

(* C6: in a free-running call without targets and without language model,   *)
(* outside training mode, the output trace, the token trace and the        *)
(* attention trace have equal length after every iteration, and the        *)
(* finished call returns max_length entries in each.                       *)
C6_InferenceTraces ==
    (FreeRunning /\ targets = None /\ language_model = "None" /\ ~training)
        => (/\ pc \in {"free", "done"}
            /\ ret_dict.keys = {KEY_ATTENTION_SCORE, KEY_SEQUENCE_SYMBOL}
            /\ Len(decoder_outputs) = di
            /\ Len(ret_dict.sequence_symbol) = di
            /\ Len(ret_dict.attention_score) = di
            /\ (pc = "done" => di = MaxLength))

C6_Witness ==
    /\ pc = "done" /\ FreeRunning /\ targets = None
    /\ language_model = "None" /\ ~training
    /\ batch_size = 2
    /\ Len(decoder_outputs) = MaxLength
    /\ Len(ret_dict.sequence_symbol) = MaxLength

C8_UnsupportedAttentionFailsConstruction ==
    /\ attn_mechanism \notin {"None", "loc", "dot"}
          => (/\ ~constructed /\ pc = "none" /\ error = "ValueError"
              /\ calls = << >> /\ decoder_outputs = << >>)
    /\ constructed => attn_mechanism \in {"loc", "dot"}
    /\ pc \notin {"none"} => constructed

C8_Witness ==
    attn_mechanism = "bogus" /\ ~constructed /\ error = "ValueError"

(* C9: within a call the first forward_step receives the empty recurrent    *)
(* state and no attention state, every later one receives the recurrent    *)
(* state (under 'loc', also the attention state) its predecessor returned, *)
(* and the live state is the one returned last.                            *)
C9_StateFlowsSequentially ==
    /\ calls # << >> => calls[1].hidden_in = None /\ calls[1].attn_in = None
    /\ \A i \in 2 .. Len(calls) :
          /\ calls[i].hidden_in = calls[i - 1].hidden_out
          /\ attn_mechanism = "loc" => calls[i].attn_in = calls[i - 1].attn_out
    /\ calls # << >> =>
          /\ hidden = calls[Len(calls)].hidden_out
          /\ attn = calls[Len(calls)].attn_out

C9_Witness ==
    /\ attn_mechanism = "loc" /\ use_teacher_forcing
    /\ Len(calls) >= 3
    /\ calls[3].hidden_in # calls[2].hidden_in

(* C10: in the free-running branch step 0 is fed the first token of the     *)
(* seed (the start-of-sequence token without targets); every later step i  *)
(* is fed, and outside training mode records as token-trace entry i, the   *)
(* arg-max token of the distribution appended at step i - 1, which is the  *)
(* fused distribution when a language model is attached.                   *)
C10_GreedyFeedback ==
    FreeRunning
        => (/\ calls # << >> =>
                  /\ calls[1].input = Column(inputs, 0)
                  /\ targets = None => calls[1].input = Seed(batch_size)
            /\ \A i \in 2 .. Len(calls) :
                  /\ calls[i].input = TopK1(decoder_outputs[i - 1])
                  /\ ~training => ret_dict.sequence_symbol[i] = calls[i].input
                  /\ language_model # "None" =>
                        decoder_outputs[i - 1] =
                            Blend(calls[i - 1].step_output,
                                  LMStep(RunningHistory(i - 1))))


-----------------------------------------------------------------------------
(* What does hold where C1, C2, C5 and C10 fail *)

\* Well-formed targets under teacher forcing: L - 1 entries whenever the batched
\* path is not given a single position.
TeacherForcedTraceLengthElsewhere ==
    (/\ Ended /\ use_teacher_forcing
     /\ targets # None
     /\ WellFormed(targets)
     /\ attn_mechanism = "loc" \/ Len(targets[1]) >= 3)
        => (pc = "done" /\ Len(decoder_outputs) = Len(targets[1]) - 1)

\* Free running to the cap whenever the fusion is not reached, whatever tokens
\* are generated.
FreeRunningWithoutFusionRunsToCap ==
    (Ended /\ FreeRunning /\ (training \/ language_model = "None"))
        => (/\ pc = "done"
            /\ Len(calls) = max_length
            /\ Len(decoder_outputs) = max_length)

\* The batched path and the manual loop agree from two positions on.
BatchedEqualsStepwiseFromTwo ==
    (/\ Ended /\ use_teacher_forcing /\ attn_mechanism = "dot" /\ calls # << >>
     /\ Len(inputs[1]) >= 2)
        => (/\ error = "None"
            /\ decoder_outputs = ManualLoop(0, None, None, << >>))

\* Every later step is fed the arg-max token of the entry appended before it.
FedTokenIsArgMaxOfAppended ==
    FreeRunning
        => \A i \in 2 .. Len(calls) : calls[i].input = TopK1(decoder_outputs[i - 1])

\* a free-running call that generated the end-of-sequence token and went on
EosGeneratedAndLoopWentOn ==
    /\ FreeRunning
    /\ \E i \in 2 .. Len(calls) :
          i < Len(calls) /\ \A r \in 1 .. batch_size : calls[i].input[r] = << eos_id >>

=============================================================================
